---- MODULE Spec2Model ----
(***************************************************************************)
(* ArchitechLens (src/main.py): the value model (enumerations, geometry,   *)
(* elements, model), the JSON encoder and the type-directed decoder, and   *)
(* the model store that binds them to one file per model name.             *)
(*                                                                         *)
(* Python values are records tagged with their Python type in the field    *)
(* py: a dataclass instance carries its class name, a parsed JSON object   *)
(* is a "dict", a missing value is "None".  A method is an operator from   *)
(* the state it reads to a result record: err is "none" or the name of the *)
(* exception class raised, why says which raise statement it was.          *)
(***************************************************************************)
EXTENDS Integers, Sequences, FiniteSets, TLC

\* ------------------------------------------------------------------ bounds

\* Largest number of entries the element mapping of a model is grown to.
MaxElements == 2

\* ------------------------------------------------------- results and errors

Ok(v) == [err |-> "none", why |-> "", value |-> v]
Raise(kind, why) == [err |-> kind, why |-> why]

None == [py |-> "None"]

\* The exception classes derived from ArchitechLensError, itself included.
ArchitechLensErrorKinds ==
  {"ArchitechLensError", "ValidationError", "ElementNotFoundError",
   "DuplicateElementError"}

IsArchitechLensError(kind) == kind \in ArchitechLensErrorKinds

\* ------------------------------------------------------------ enumerations

ElementTypeMembers == {"BEAM", "WALL", "COLUMN", "DOOR", "WINDOW", "SLAB", "ROOF"}

ElementTypeValue(m) ==
  CASE m = "BEAM" -> "Beam"
    [] m = "WALL" -> "Wall"
    [] m = "COLUMN" -> "Column"
    [] m = "DOOR" -> "Door"
    [] m = "WINDOW" -> "Window"
    [] m = "SLAB" -> "Slab"
    [] m = "ROOF" -> "Roof"

MaterialTypeMembers == {"CONCRETE", "STEEL", "WOOD", "GLASS", "BRICK", "PLASTER"}

MaterialTypeValue(m) ==
  CASE m = "CONCRETE" -> "Concrete"
    [] m = "STEEL" -> "Steel"
    [] m = "WOOD" -> "Wood"
    [] m = "GLASS" -> "Glass"
    [] m = "BRICK" -> "Brick"
    [] m = "PLASTER" -> "Plaster"

\* A member of an enumeration, as a Python value.
EnumMember(enum, m) == [py |-> enum, member |-> m]

EnumMembers(enum) ==
  IF enum = "ElementType" THEN ElementTypeMembers ELSE MaterialTypeMembers

\* obj.value of an enumeration member.
EnumValue(e) ==
  IF e.py = "ElementType" THEN ElementTypeValue(e.member)
  ELSE MaterialTypeValue(e.member)

\* field_type(value): the member whose value is v, or ValueError.
EnumLookup(enum, v) ==
  LET hits == {m \in EnumMembers(enum) : EnumValue(EnumMember(enum, m)) = v}
  IN IF hits = {} THEN Raise("ValueError", "not_a_member")
     ELSE Ok(EnumMember(enum, CHOOSE m \in hits : TRUE))

\* ---------------------------------------------------------------- geometry

\* GeometricProperties(length, width, height) with its __post_init__.
GeometricProperties(length, width, height) ==
  IF length > 0 /\ width > 0 /\ height > 0
  THEN Ok([py |-> "GeometricProperties", length |-> length, width |-> width,
           height |-> height])
  ELSE Raise("ValidationError", "dimensions")

\* ---------------------------------------------------------------- elements

ConcreteClasses == {"Beam", "Wall", "Column"}

\* The element_type each concrete class fixes with field(default=..., init=False).
DefaultElementType(cls) ==
  CASE cls = "Beam" -> EnumMember("ElementType", "BEAM")
    [] cls = "Wall" -> EnumMember("ElementType", "WALL")
    [] cls = "Column" -> EnumMember("ElementType", "COLUMN")

\* isinstance(x, ArchitecturalElement)
IsElement(x) == x.py \in ConcreteClasses

\* ArchitecturalElement.__post_init__ followed by the subclass's own check:
\* "" when the instance is valid, else which validation raised.
Element_post_init_any_material(self) ==
  IF self.id = "" THEN "empty_id"
  ELSE IF self.name = "" THEN "empty_name"
  ELSE IF self.element_type.py # "ElementType" THEN "element_type"
  ELSE IF self.geometric_properties.py # "GeometricProperties" THEN "geometry"
  ELSE IF self.element_type # DefaultElementType(self.py) THEN "class_type"
  ELSE ""

Element_post_init(self) ==
  IF self.id = "" THEN "empty_id"
  ELSE IF self.name = "" THEN "empty_name"
  ELSE IF self.element_type.py # "ElementType" THEN "element_type"
  ELSE IF self.material.py # "MaterialType" THEN "material"
  ELSE IF self.geometric_properties.py # "GeometricProperties" THEN "geometry"
  ELSE IF self.element_type # DefaultElementType(self.py) THEN "class_type"
  ELSE ""

\* Beam(...), Wall(...), Column(...): the generated __init__ and __post_init__.
NewElement(cls, id, name, material, geometric_properties, custom_properties) ==
  LET self == [py |-> cls, id |-> id, name |-> name,
               element_type |-> DefaultElementType(cls), material |-> material,
               geometric_properties |-> geometric_properties,
               custom_properties |-> custom_properties]
      bad == Element_post_init(self)
  IN IF bad = "" THEN Ok(self) ELSE Raise("ValidationError", bad)

\* ------------------------------------------------------------------- model

\* A Python dict keyed by strings is the sequence of its entries [k, v] in
\* insertion order, keys distinct.
DictKeys(items) == {items[i].k : i \in 1..Len(items)}

DictGet(items, key) ==
  LET i == CHOOSE i \in 1..Len(items) : items[i].k = key IN items[i].v

\* d[key] = value: in place for a present key, appended for a new one.
DictSet(items, key, value) ==
  IF key \in DictKeys(items)
  THEN [i \in 1..Len(items) |->
          IF items[i].k = key THEN [k |-> key, v |-> value] ELSE items[i]]
  ELSE Append(items, [k |-> key, v |-> value])

\* d.pop(key)
DictPop(items, key) == SelectSeq(items, LAMBDA e : e.k # key)

Dict(items) == [py |-> "dict", items |-> items]

\* ArchitecturalModel(name, elements) with its __post_init__; elements is
\* any Python value handed to the constructor.
ArchitecturalModel_new_unchecked_ids(name, elements) ==
  IF name = "" THEN Raise("ValidationError", "empty_model_name")
  ELSE IF elements.py # "dict" THEN Raise("AttributeError", "items")
  ELSE IF \E i \in 1..Len(elements.items) : ~IsElement(elements.items[i].v)
  THEN Raise("ValidationError", "not_an_element")
  ELSE Ok([py |-> "ArchitecturalModel", name |-> name,
           elements |-> elements.items])

ArchitecturalModel_new(name, elements) ==
  IF name = "" THEN Raise("ValidationError", "empty_model_name")
  ELSE IF elements.py # "dict" THEN Raise("AttributeError", "items")
  ELSE LET items == elements.items
           bad == {i \in 1..Len(items) :
                     \/ ~IsElement(items[i].v)
                     \/ items[i].v.id # items[i].k}
       IN IF bad = {}
          THEN Ok([py |-> "ArchitecturalModel", name |-> name, elements |-> items])
          ELSE LET i == CHOOSE i \in bad : \A j \in bad : i <= j
               IN IF ~IsElement(items[i].v)
                  THEN Raise("ValidationError", "not_an_element")
                  ELSE Raise("ValidationError", "id_mismatch")

\* ArchitecturalModel.add_element: the model after the call.
add_element_overwrite(self, element) ==
  IF ~IsElement(element)
  THEN [err |-> "ValidationError", why |-> "not_an_element", self |-> self]
  ELSE [err |-> "none", why |-> "",
        self |-> [self EXCEPT !.elements = DictSet(@, element.id, element)]]

add_element(self, element) ==
  IF ~IsElement(element)
  THEN [err |-> "ValidationError", why |-> "not_an_element", self |-> self]
  ELSE IF element.id \in DictKeys(self.elements)
  THEN [err |-> "DuplicateElementError", why |-> "duplicate_id", self |-> self]
  ELSE [err |-> "none", why |-> "",
        self |-> [self EXCEPT !.elements = DictSet(@, element.id, element)]]

\* ArchitecturalModel.get_element: dict.get, None for an absent id.
get_element_raising(self, element_id) ==
  IF element_id \in DictKeys(self.elements)
  THEN Ok(DictGet(self.elements, element_id))
  ELSE [err |-> "ElementNotFoundError", why |-> "absent_id", value |-> None]

get_element(self, element_id) ==
  IF element_id \in DictKeys(self.elements)
  THEN Ok(DictGet(self.elements, element_id))
  ELSE Ok(None)

\* ArchitecturalModel.remove_element: the removed element and the model after.
remove_element_first(self, element_id) ==
  IF element_id \notin DictKeys(self.elements)
  THEN [err |-> "ElementNotFoundError", why |-> "absent_id", self |-> self]
  ELSE [err |-> "none", why |-> "",
        value |-> self.elements[1].v,
        self |-> [self EXCEPT !.elements = Tail(@)]]

remove_element(self, element_id) ==
  IF element_id \notin DictKeys(self.elements)
  THEN [err |-> "ElementNotFoundError", why |-> "absent_id", self |-> self]
  ELSE [err |-> "none", why |-> "",
        value |-> DictGet(self.elements, element_id),
        self |-> [self EXCEPT !.elements = DictPop(@, element_id)]]

\* ----------------------------------------------------------------- encoder

\* A dict read by field name: the record of its fields.
Mapping(f) == [py |-> "dict", f |-> f]

\* dataclasses.asdict: dataclass instances become dicts field by field, dict
\* values are converted in place, every other value (an enumeration member,
\* a custom property value) is copied as it is.
asdict_geometry(g) ==
  Mapping([length |-> g.length, width |-> g.width, height |-> g.height])

asdict_element(e) ==
  Mapping([id |-> e.id, name |-> e.name, element_type |-> e.element_type,
           material |-> e.material,
           geometric_properties |-> asdict_geometry(e.geometric_properties),
           custom_properties |-> e.custom_properties])

asdict_model(m) ==
  Mapping([name |-> m.name,
           elements |-> Dict([i \in 1..Len(m.elements) |->
                                [k |-> m.elements[i].k,
                                 v |-> asdict_element(m.elements[i].v)]])])

\* The values json encodes without asking the encoder's default().
JsonNative(v) == v.py \in {"str", "int", "dict", "list"}

\* ArchitechLensJSONEncoder.default: called for a value json cannot encode.
\* No Path and, after asdict, no dataclass instance occurs in a model.
EncoderDefault(obj) ==
  IF obj.py \in {"ElementType", "MaterialType"} THEN Ok(EnumValue(obj))
  ELSE Raise("TypeError", "not_json_serializable")

\* Whether json can write every value of a custom_properties dict.
Encodable(props) ==
  \A k \in DOMAIN props :
     JsonNative(props[k]) \/ EncoderDefault(props[k]).err = "none"

\* The text json.dump writes, as the sequence of the chunks it hands to
\* f.write: the opening of the document with the model's name, then for each
\* entry of the element mapping, in the dict's order, its key with the fields
\* up to geometric_properties and after that its custom_properties, then the
\* closing braces.
OpenChunk(data) == [c |-> "open", name |-> data.f.name]

HeadChunk(entry) ==
  [c |-> "head", key |-> entry.k,
   f |-> [id |-> entry.v.f.id, name |-> entry.v.f.name,
          element_type |-> EncoderDefault(entry.v.f.element_type).value,
          material |-> EncoderDefault(entry.v.f.material).value,
          geometric_properties |-> entry.v.f.geometric_properties]]

CustomChunk(entry) == [c |-> "custom", props |-> entry.v.f.custom_properties]

CloseChunk == [c |-> "close"]

AllChunks(data) ==
  LET items == data.f.elements.items
      n == Len(items)
  IN [j \in 1..(2 * n + 2) |->
        IF j = 1 THEN OpenChunk(data)
        ELSE IF j = 2 * n + 2 THEN CloseChunk
        ELSE IF j % 2 = 0 THEN HeadChunk(items[j \div 2])
        ELSE CustomChunk(items[j \div 2])]

\* JSONEncoder.iterencode over asdict's output: the chunks produced before the
\* first value default() rejects, and the TypeError it then raises.
iterencode(data) ==
  LET items == data.f.elements.items
      bad == {i \in 1..Len(items) : ~Encodable(items[i].v.f.custom_properties)}
  IN IF bad = {}
     THEN [err |-> "none", why |-> "", chunks |-> AllChunks(data)]
     ELSE LET i == CHOOSE i \in bad : \A j \in bad : i <= j
          IN [err |-> "TypeError", why |-> "not_json_serializable",
              chunks |-> SubSeq(AllChunks(data), 1, 2 * i)]

\* json.load: the document of a complete text, JSONDecodeError for any other.
\* A text of the single chunk "value" is a document written as a whole.
WellFormed(text) ==
  \/ Len(text) = 1 /\ text[1].c = "value"
  \/ /\ Len(text) >= 2
     /\ Len(text) % 2 = 0
     /\ text[1].c = "open"
     /\ text[Len(text)].c = "close"
     /\ \A j \in 2..(Len(text) - 1) :
           text[j].c = (IF j % 2 = 0 THEN "head" ELSE "custom")

json_load(text) ==
  IF ~WellFormed(text) THEN Raise("JSONDecodeError", "invalid_json")
  ELSE IF text[1].c = "value" THEN Ok(text[1].v)
  ELSE Ok(Mapping(
         [name |-> text[1].name,
          elements |->
            Dict([i \in 1..((Len(text) - 2) \div 2) |->
                    [k |-> text[2 * i].key,
                     v |-> Mapping(text[2 * i].f @@
                             [custom_properties |-> text[2 * i + 1].props])]])]))

\* ----------------------------------------------------------------- decoder

DataclassNames ==
  {"ArchitecturalModel", "ArchitecturalElement", "GeometricProperties"}
    \cup ConcreteClasses

\* element_type_class_map.get(value): the concrete class registered for a
\* wire value of ElementType, None for every other value.
element_type_class_map_default_beam(value) ==
  CASE value = "Beam" -> "Beam"
    [] value = "Wall" -> "Wall"
    [] value = "Column" -> "Column"
    [] OTHER -> "Beam"

element_type_class_map_generic(value) ==
  CASE value = "Beam" -> "Beam"
    [] value = "Wall" -> "Wall"
    [] value = "Column" -> "Column"
    [] OTHER -> "ArchitecturalElement"

element_type_class_map(value) ==
  CASE value = "Beam" -> "Beam"
    [] value = "Wall" -> "Wall"
    [] value = "Column" -> "Column"
    [] OTHER -> "None"

\* cls.__annotations__: the fields annotated in the body of the class itself,
\* in order, each with its declared type.  A concrete element class annotates
\* element_type only; the fields of ArchitecturalElement are not among them.
Annotations(cls) ==
  CASE cls = "ArchitecturalModel" ->
         <<[n |-> "name", t |-> "str"], [n |-> "elements", t |-> "Dict"]>>
    [] cls = "GeometricProperties" ->
         <<[n |-> "length", t |-> "float"], [n |-> "width", t |-> "float"],
           [n |-> "height", t |-> "float"]>>
    [] cls \in ConcreteClasses ->
         <<[n |-> "element_type", t |-> "ElementType"]>>
    [] OTHER ->
         <<[n |-> "id", t |-> "str"], [n |-> "name", t |-> "str"],
           [n |-> "element_type", t |-> "ElementType"],
           [n |-> "material", t |-> "MaterialType"],
           [n |-> "geometric_properties", t |-> "GeometricProperties"],
           [n |-> "custom_properties", t |-> "Dict"]>>

\* The keyword parameters of the generated __init__ and those without default.
InitParams(cls) ==
  CASE cls = "ArchitecturalModel" -> {"name", "elements"}
    [] cls = "GeometricProperties" -> {"length", "width", "height"}
    [] OTHER -> {"id", "name", "material", "geometric_properties",
                 "custom_properties"}

RequiredParams(cls) ==
  CASE cls = "ArchitecturalModel" -> {"name"}
    [] cls = "GeometricProperties" -> {"length", "width", "height"}
    [] OTHER -> {"id", "name", "material", "geometric_properties"}

\* actual_target_class(**field_values): TypeError for the abstract base class,
\* for a keyword __init__ does not take and for a required one that is
\* missing, else the class's constructor.
Instantiate(cls, fv) ==
  IF cls = "ArchitecturalElement" THEN Raise("TypeError", "abstract_class")
  ELSE IF ~(DOMAIN fv \subseteq InitParams(cls))
  THEN Raise("TypeError", "unexpected_keyword")
  ELSE IF ~(RequiredParams(cls) \subseteq DOMAIN fv)
  THEN Raise("TypeError", "missing_argument")
  ELSE IF cls = "ArchitecturalModel"
  THEN ArchitecturalModel_new(
         fv.name, IF "elements" \in DOMAIN fv THEN fv.elements ELSE Dict(<<>>))
  ELSE IF cls = "GeometricProperties"
  THEN GeometricProperties(fv.length, fv.width, fv.height)
  ELSE NewElement(cls, fv.id, fv.name, fv.material, fv.geometric_properties,
                  IF "custom_properties" \in DOMAIN fv
                  THEN fv.custom_properties ELSE <<>>)

RECURSIVE deserialize_dataclass(_, _)

\* The conversion of one present field by its declared type: a Dict is kept
\* as it is, a dataclass is decoded recursively, an enumeration is looked up
\* by value (ValueError becomes ValidationError), any other type is kept.
ConvertField(t, value) ==
  IF t = "Dict" THEN Ok(value)
  ELSE IF t \in DataclassNames THEN deserialize_dataclass(value, t)
  ELSE IF t \in {"ElementType", "MaterialType"}
  THEN LET r == EnumLookup(t, value)
       IN IF r.err = "ValueError" THEN Raise("ValidationError", "invalid_enum")
          ELSE r
  ELSE Ok(value)

\* _deserialize_dataclass(data, target_class)
deserialize_dataclass(data, target_class) ==
  IF target_class \notin DataclassNames
  THEN Raise("TypeError", "not_a_dataclass")
  ELSE IF data.py # "dict" THEN Raise("TypeError", "not_a_dict")
  ELSE IF target_class = "ArchitecturalElement"
          /\ "element_type" \notin DOMAIN data.f
  THEN Raise("ValidationError", "missing_element_type")
  ELSE IF target_class = "ArchitecturalElement"
          /\ element_type_class_map(data.f.element_type) = "None"
  THEN Raise("ValidationError", "unknown_element_type")
  ELSE
    LET actual == IF target_class = "ArchitecturalElement"
                  THEN element_type_class_map(data.f.element_type)
                  ELSE target_class
        ann == Annotations(actual)
        present == {i \in 1..Len(ann) : ann[i].n \in DOMAIN data.f}
        conv == [i \in present |-> ConvertField(ann[i].t, data.f[ann[i].n])]
        failed == {i \in present : conv[i].err # "none"}
    IN IF failed # {}
       THEN LET i == CHOOSE i \in failed : \A j \in failed : i <= j
            IN Raise(conv[i].err, conv[i].why)
       ELSE LET fv == [n \in {ann[i].n : i \in present} |->
                         LET i == CHOOSE i \in present : ann[i].n = n
                         IN conv[i].value]
                made == Instantiate(actual, fv)
            IN IF made.err = "TypeError"
               THEN Raise("ValidationError", made.why)
               ELSE made

\* ------------------------------------------------------------------- store

\* The model names load_model is called with; no model is ever given the
\* second one.
FileNames == {"M", "nope"}

Absent == [kind |-> "absent"]
File(text) == [kind |-> "file", text |-> text]

\* file_path.is_file()
IsFile(files, model_name) == files[model_name].kind = "file"

\* The except clauses of save_model: what the caller sees for an exception
\* raised in the try block.  The FileNotFoundError clause binds no name and
\* then evaluates "raise ... from e": e is a local of the function that has
\* no value there.
save_model_handlers(exc) ==
  CASE exc = "TypeError" -> Raise("ArchitechLensError", "serialization")
    [] exc = "FileNotFoundError" -> Raise("UnboundLocalError", "from_e")
    [] exc = "PermissionError" -> Raise("ArchitechLensError", "permission")
    [] OTHER -> Raise("ArchitechLensError", "unexpected")

\* ArchitechLens.save_model.  fault is what the file system does to this call:
\* "none", "FileNotFoundError" (the directory of the path does not exist) or
\* "PermissionError" at open, or "OSError" at the write that follows the first
\* cut chunks.  open(..., 'w') empties the file before json.dump
\* writes chunk by chunk, and closing the file keeps what was written.
save_model(current_model, files, fault, cut) ==
  IF current_model = None
  THEN [err |-> "none", why |-> "", value |-> FALSE, files |-> files]
  ELSE
    LET model_name == current_model.name
        enc == iterencode(asdict_model(current_model))
        failed(exc, fs) == [err |-> save_model_handlers(exc).err,
                            why |-> save_model_handlers(exc).why, files |-> fs]
        written(text) == [files EXCEPT ![model_name] = File(text)]
    IN IF fault \in {"FileNotFoundError", "PermissionError"}
       THEN failed(fault, files)
       ELSE IF fault = "OSError" /\ cut < Len(enc.chunks)
       THEN failed("OSError", written(SubSeq(enc.chunks, 1, cut)))
       ELSE IF enc.err # "none"
       THEN failed(enc.err, written(enc.chunks))
       ELSE [err |-> "none", why |-> "", value |-> TRUE,
             files |-> written(enc.chunks)]

\* ArchitechLens.create_new_model
create_new_model(current_model, model_name) ==
  LET made == ArchitecturalModel_new(model_name, Dict(<<>>))
  IN IF made.err = "none"
     THEN [err |-> "none", why |-> "", current_model |-> made.value]
     ELSE [err |-> made.err, why |-> made.why, current_model |-> current_model]

\* The except clauses of load_model.

load_model_handlers(exc) ==
  CASE exc = "FileNotFoundError" -> "FileNotFoundError"
    [] OTHER -> "ArchitechLensError"

\* The branch of load_model for a path that is no file.
load_model_missing_wrapped(current_model) ==
  [err |-> "ArchitechLensError", why |-> "no_file", current_model |-> None]

load_model_missing_keep(current_model) ==
  [err |-> "FileNotFoundError", why |-> "no_file",
   current_model |-> current_model]

load_model_missing(current_model) ==
  [err |-> "FileNotFoundError", why |-> "no_file", current_model |-> None]

\* What load_model does with the result of a read or decode step that failed.
load_model_failed_partial(current_model, r) ==
  [err |-> load_model_handlers(r.err), why |-> r.why,
   current_model |-> [py |-> "ArchitecturalModel", name |-> "", elements |-> <<>>]]

load_model_failed_cleared(current_model, r) ==
  [err |-> load_model_handlers(r.err), why |-> r.why, current_model |-> None]

load_model_failed(current_model, r) ==
  [err |-> load_model_handlers(r.err), why |-> r.why,
   current_model |-> current_model]

\* ArchitechLens.load_model: the current model after the call.
load_model(current_model, files, model_name) ==
  IF ~IsFile(files, model_name) THEN load_model_missing(current_model)
  ELSE
    LET parsed == json_load(files[model_name].text)
    IN IF parsed.err # "none" THEN load_model_failed(current_model, parsed)
       ELSE LET loaded == deserialize_dataclass(parsed.value, "ArchitecturalModel")
            IN IF loaded.err # "none"
               THEN load_model_failed(current_model, loaded)
               ELSE [err |-> "none", why |-> "", current_model |-> loaded.value]

\* ------------------------------------------------------------ state machine

VARIABLES
  current_model,  \* ArchitechLens.current_model: None or the model object
  files,          \* the files of the model directory, by model name
  last            \* the call made last: its name, argument and outcome

vars == <<current_model, files, last>>

\* The inputs of the calls.
Steel == EnumMember("MaterialType", "STEEL")
Brick == EnumMember("MaterialType", "BRICK")
UnitGeometry == GeometricProperties(1, 1, 1).value
PyStr(x) == [py |-> "str", s |-> x]
PySet == [py |-> "set"]
PyBool(b) == [py |-> "bool", b |-> b]

ElementIds == {"B001", "W001", "C001"}

ElementPool ==
  {NewElement("Beam", "B001", "Haupttraeger", Steel, UnitGeometry, <<>>).value,
   NewElement("Wall", "W001", "Aussenwand", Brick, UnitGeometry,
              [fire_rating |-> PyStr("R60")]).value,
   NewElement("Column", "C001", "Stuetze", Steel, UnitGeometry,
              [cache |-> PySet]).value,
   NewElement("Wall", "B001", "Innenwand", Brick, UnitGeometry, <<>>).value}

CreateNames == {"M", ""}
Faults == {"none", "FileNotFoundError", "PermissionError", "OSError"}

\* The element mappings handed to the constructor of a model directly: one
\* keyed by the element's id, one keyed by another id, one holding a plain
\* dict in place of an element, and a list.
ConstructorElements ==
  LET e == CHOOSE e \in ElementPool : e.py = "Beam"
  IN {Dict(<<>>),
      Dict(<<[k |-> "B001", v |-> e]>>),
      Dict(<<[k |-> "W001", v |-> e]>>),
      Dict(<<[k |-> "B001", v |-> asdict_element(e)]>>),
      [py |-> "list", items |-> <<e>>]}

Init ==
  /\ current_model = None
  /\ files = [n \in FileNames |-> Absent]
  /\ last = [op |-> "init", arg |-> "", err |-> "none", why |-> ""]

CreateNewModel ==
  \E model_name \in CreateNames :
    LET r == create_new_model(current_model, model_name)
    IN /\ current_model' = r.current_model
       /\ last' = [op |-> "create_new_model", arg |-> model_name,
                   err |-> r.err, why |-> r.why]
       /\ UNCHANGED files

\* ArchitecturalModel(name, elements) called by the application itself.
ConstructModel ==
  \E elements \in ConstructorElements :
    LET r == ArchitecturalModel_new("M", elements)
    IN /\ last' = [op |-> "ArchitecturalModel", arg |-> elements,
                   err |-> r.err, why |-> r.why,
                   value |-> IF r.err = "none" THEN r.value ELSE None]
       /\ UNCHANGED <<current_model, files>>

AddElement ==
  /\ current_model # None
  /\ \E element \in ElementPool :
       /\ \/ Len(current_model.elements) < MaxElements
          \/ element.id \in DictKeys(current_model.elements)
       /\ LET r == add_element(current_model, element)
          IN /\ current_model' = r.self
             /\ last' = [op |-> "add_element", arg |-> element.id,
                         err |-> r.err, why |-> r.why]
       /\ UNCHANGED files

RemoveElement ==
  /\ current_model # None
  /\ \E element_id \in ElementIds :
       LET r == remove_element(current_model, element_id)
       IN /\ current_model' = r.self
          /\ last' = [op |-> "remove_element", arg |-> element_id,
                      err |-> r.err, why |-> r.why,
                      value |-> IF r.err = "none" THEN r.value ELSE None]
          /\ UNCHANGED files

GetElement ==
  /\ current_model # None
  /\ \E element_id \in ElementIds :
       LET r == get_element(current_model, element_id)
       IN /\ last' = [op |-> "get_element", arg |-> element_id,
                      err |-> r.err, why |-> r.why, value |-> r.value]
          /\ UNCHANGED <<current_model, files>>

SaveModel ==
  \E fault \in Faults, cut \in 0..(2 * MaxElements + 1) :
    /\ fault = "OSError" =>
         /\ current_model # None
         /\ cut < Len(iterencode(asdict_model(current_model)).chunks)
    /\ fault # "OSError" => cut = 0
    /\ LET r == save_model(current_model, files, fault, cut)
       IN /\ files' = r.files
          /\ last' = [op |-> "save_model", arg |-> fault,
                      err |-> r.err, why |-> r.why,
                      value |-> IF r.err = "none" THEN PyBool(r.value) ELSE None]
          /\ UNCHANGED current_model

LoadModel ==
  \E model_name \in FileNames :
    LET r == load_model(current_model, files, model_name)
    IN /\ current_model' = r.current_model
       /\ last' = [op |-> "load_model", arg |-> model_name,
                   err |-> r.err, why |-> r.why]
       /\ UNCHANGED files

Next ==
  \/ CreateNewModel
  \/ ConstructModel
  \/ AddElement
  \/ RemoveElement
  \/ GetElement
  \/ SaveModel
  \/ LoadModel

Spec == Init /\ [][Next]_vars

\* ------------------------------------------------- the decoder on its own

\* The inputs _deserialize_dataclass is applied to: element mappings with the
\* discriminator absent, registered, unregistered or unknown, with and
\* without an id and an undeclared field; geometry and model mappings; a
\* value that is no dict; a target that is no dataclass.
AbsentField == "(absent)"

ElementTypeInputs ==
  {AbsentField, "SPACESHIP", "BEAM"}
    \cup {ElementTypeValue(m) : m \in ElementTypeMembers}

With(present, f) == IF present THEN f ELSE <<>>

UnitGeometryData == Mapping([length |-> 1, width |-> 1, height |-> 1])

ElementData(element_type, material, hasId, extra) ==
  [name |-> "Traeger", material |-> material,
   geometric_properties |-> UnitGeometryData,
   custom_properties |-> [fire_rating |-> PyStr("R60")]]
    @@ With(hasId, [id |-> "B001"])
    @@ With(element_type # AbsentField, [element_type |-> element_type])
    @@ With(extra, [color |-> PyStr("red")])

GeometryData(length, hasHeight, extra) ==
  [length |-> length, width |-> 1]
    @@ With(hasHeight, [height |-> 1])
    @@ With(extra, [thickness |-> 1])

ModelData(name, elements, extra) ==
  With(name # AbsentField, [name |-> name])
    @@ With(elements.py # "None", [elements |-> elements])
    @@ With(extra, [metadata |-> PyStr("v1")])

ElementsInputs ==
  {None, Dict(<<>>),
   Dict(<<[k |-> "B001",
           v |-> Mapping(ElementData("Beam", "Steel", TRUE, FALSE))]>>),
   [py |-> "list",
    items |-> <<Mapping(ElementData("Beam", "Steel", TRUE, FALSE))>>]}

DecodeInputs ==
  {[data |-> Mapping(ElementData(t, m, i, x)), target |-> "ArchitecturalElement"] :
     t \in ElementTypeInputs, m \in {"Steel", "FakeMaterial"},
     i \in BOOLEAN, x \in BOOLEAN}
    \cup
  {[data |-> Mapping(ElementData(t, "Steel", i, x)), target |-> c] :
     t \in {AbsentField, "Beam", "Wall"}, c \in {"Beam", "Wall"},
     i \in BOOLEAN, x \in BOOLEAN}
    \cup
  {[data |-> Mapping(GeometryData(l, h, x)), target |-> "GeometricProperties"] :
     l \in {0, 1, 5}, h \in BOOLEAN, x \in BOOLEAN}
    \cup
  {[data |-> Mapping(ModelData(n, e, x)), target |-> "ArchitecturalModel"] :
     n \in {AbsentField, "", "M"}, e \in ElementsInputs, x \in BOOLEAN}
    \cup
  {[data |-> [py |-> "list", items |-> <<>>], target |-> "ArchitecturalModel"],
   [data |-> Mapping(ElementData("Beam", "Steel", TRUE, FALSE)),
    target |-> "ElementType"]}

InitDecode ==
  /\ current_model = None
  /\ files = [n \in FileNames |-> Absent]
  /\ \E input \in DecodeInputs :
       last = [op |-> "input", data |-> input.data, target |-> input.target,
               err |-> "none", why |-> "", value |-> None]

Deserialize ==
  /\ last.op = "input"
  /\ LET r == deserialize_dataclass(last.data, last.target)
     IN last' = [op |-> "deserialize_dataclass", data |-> last.data,
                 target |-> last.target, err |-> r.err, why |-> r.why,
                 value |-> IF r.err = "none" THEN r.value ELSE None]
  /\ UNCHANGED <<current_model, files>>

NextDecode == Deserialize

SpecDecode == InitDecode /\ [][NextDecode]_vars

\* -------------------------------------------- the constructors on their own

\* The arguments the constructors of the element classes and of the model are
\* called with: ids and names empty and not, materials that are members of
\* MaterialType and strings that are not, geometric properties that are an
\* instance and a plain dict.
MaterialInputs == {Steel, Brick, PyStr("FakeMaterial"), PyStr("Steel")}

ElementArgs ==
  [id : {"", "B002"}, name : {"", "Invalid Beam"}, material : MaterialInputs,
   geometric_properties : {UnitGeometry, UnitGeometryData}]

ModelArgs == [name : {"", "M"}, elements : ConstructorElements]

InitConstruct ==
  /\ current_model = None
  /\ files = [n \in FileNames |-> Absent]
  /\ \/ \E cls \in ConcreteClasses, args \in ElementArgs :
          last = [op |-> "input", ctor |-> cls, args |-> args,
                  err |-> "none", why |-> "", value |-> None]
     \/ \E args \in ModelArgs :
          last = [op |-> "input", ctor |-> "ArchitecturalModel", args |-> args,
                  err |-> "none", why |-> "", value |-> None]

\* Beam(...), Wall(...) or Column(...)
NewElementCall ==
  /\ last.op = "input"
  /\ last.ctor \in ConcreteClasses
  /\ LET r == NewElement(last.ctor, last.args.id, last.args.name,
                         last.args.material, last.args.geometric_properties,
                         <<>>)
     IN last' = [last EXCEPT !.op = "construct", !.err = r.err, !.why = r.why,
                             !.value = IF r.err = "none" THEN r.value ELSE None]
  /\ UNCHANGED <<current_model, files>>

\* ArchitecturalModel(name, elements)
NewModelCall ==
  /\ last.op = "input"
  /\ last.ctor = "ArchitecturalModel"
  /\ LET r == ArchitecturalModel_new(last.args.name, last.args.elements)
     IN last' = [last EXCEPT !.op = "construct", !.err = r.err, !.why = r.why,
                             !.value = IF r.err = "none" THEN r.value ELSE None]
  /\ UNCHANGED <<current_model, files>>

NextConstruct ==
  \/ NewElementCall
  \/ NewModelCall

SpecConstruct == InitConstruct /\ [][NextConstruct]_vars

\* ------------------------------------------------------------------ claims

\* Equality of two models as Python compares them: the names, and the element
\* dicts entry by entry whatever their order; two elements are equal when they
\* are of the same class and agree on every field.
ModelEq(a, b) ==
  /\ a.py = "ArchitecturalModel" /\ b.py = "ArchitecturalModel"
  /\ a.name = b.name
  /\ DictKeys(a.elements) = DictKeys(b.elements)
  /\ \A key \in DictKeys(a.elements) :
        DictGet(a.elements, key) = DictGet(b.elements, key)

\* The kind of error load_model reports for content it cannot decode.
DeserializationError == "ArchitechLensError"

KeysMatchIds(m) ==
  \A i \in 1..Len(m.elements) :
     IsElement(m.elements[i].v) /\ m.elements[i].k = m.elements[i].v.id

\* C1 (round-trip law): whenever the store holds a model whose custom
\* properties can all be encoded, saving it and loading the file just written
\* with a store that has no current model succeeds and gives a model equal to
\* it in name and element set, every element of the same class and equal field
\* by field.
C1_RoundTrip ==
  (current_model # None
     /\ iterencode(asdict_model(current_model)).err = "none") =>
    LET saved == save_model(current_model, files, "none", 0)
        loaded == load_model(None, saved.files, current_model.name)
    IN /\ saved.err = "none"
       /\ loaded.err = "none"
       /\ ModelEq(loaded.current_model, current_model)

\* C2 (duplicate rejection): a call of add_element with an element whose id is
\* a key of the element mapping raises DuplicateElementError and leaves the
\* model, and with it the mapping's keys, count and stored elements, as it was.
C2_DuplicateRejected ==
  [][(/\ last'.op = "add_element"
      /\ current_model # None
      /\ last'.arg \in DictKeys(current_model.elements))
       => (/\ last'.err = "DuplicateElementError"
           /\ current_model' = current_model)]_vars

C2_Witness ==
  /\ last.op = "add_element"
  /\ last.err = "DuplicateElementError"
  /\ current_model # None
  /\ Len(current_model.elements) = MaxElements

\* C3 (key/id invariant): every key of the current model's element mapping is
\* the id of the element stored under it, after any calls of add_element and
\* remove_element; a constructor call with an element stored under a key that
\* is not its id raises ValidationError, and a constructor call that succeeds
\* keeps the mapping it was given.
C3_KeyIdInvariant ==
  /\ current_model # None => KeysMatchIds(current_model)
  /\ last.op = "ArchitecturalModel" =>
       /\ last.err = "none" =>
            /\ KeysMatchIds(last.value)
            /\ last.value.elements = last.arg.items
       /\ (/\ last.arg.py = "dict"
           /\ \E i \in 1..Len(last.arg.items) :
                 /\ IsElement(last.arg.items[i].v)
                 /\ last.arg.items[i].k # last.arg.items[i].v.id)
            => last.err = "ValidationError"

C3_Witness ==
  /\ last.op = "ArchitecturalModel"
  /\ last.why = "id_mismatch"
  /\ current_model # None
  /\ Len(current_model.elements) = MaxElements

\* The decoder was applied to a dict as a polymorphic element.
DecodedAsElement ==
  /\ last.op = "deserialize_dataclass"
  /\ last.target = "ArchitecturalElement"
  /\ last.data.py = "dict"

HasDiscriminator == "element_type" \in DOMAIN last.data.f

ElementTypeValues == {ElementTypeValue(m) : m \in ElementTypeMembers}

C4_Case ==
  /\ DecodedAsElement
  /\ HasDiscriminator => last.data.f.element_type \notin ElementTypeValues

MaterialTypeValues == {MaterialTypeValue(m) : m \in MaterialTypeMembers}

C5_Case ==
  /\ DecodedAsElement
  /\ {"id", "name", "element_type", "material", "geometric_properties"}
       \subseteq DOMAIN last.data.f
  /\ last.data.f.id # ""
  /\ last.data.f.name # ""
  /\ last.data.f.element_type \in {"Beam", "Wall", "Column"}
  /\ last.data.f.material \in MaterialTypeValues
  /\ deserialize_dataclass(last.data.f.geometric_properties,
                           "GeometricProperties").err = "none"

\* C5 (discriminator resolution): decoding a well-formed element mapping whose
\* element_type is the wire value of Beam, Wall or Column succeeds and yields
\* an instance of that class with the id, name, material, geometry and custom
\* properties of the mapping.
C5_DiscriminatorResolution ==
  C5_Case =>
    /\ last.err = "none"
    /\ last.value.py = last.data.f.element_type
    /\ last.value.id = last.data.f.id
    /\ last.value.name = last.data.f.name
    /\ EnumValue(last.value.element_type) = last.data.f.element_type
    /\ EnumValue(last.value.material) = last.data.f.material
    /\ asdict_geometry(last.value.geometric_properties)
         = last.data.f.geometric_properties
    /\ last.value.custom_properties = last.data.f.custom_properties

\* The wire values of the members of ElementType that no class is written for.
UnregisteredValues ==
  {ElementTypeValue(m) : m \in {"DOOR", "WINDOW", "SLAB", "ROOF"}}

C6_Case ==
  /\ DecodedAsElement
  /\ HasDiscriminator
  /\ last.data.f.element_type \in UnregisteredValues

\* C6 (type registry), as amended: the lookup from an ElementType value to a
\* class is not total; for DOOR, WINDOW, SLAB and ROOF it finds no class and
\* the decoder raises ValidationError for an unknown element type, with no
\* fallback to a generic element.
C6_RegistryPartial ==
  C6_Case =>
    /\ element_type_class_map(last.data.f.element_type) = "None"
    /\ last.err = "ValidationError"
    /\ last.why = "unknown_element_type"
    /\ last.value = None

C6_Witness ==
  /\ C6_Case
  /\ last.data.f.element_type = "Door"
  /\ last.why = "unknown_element_type"

\* C6 as stated: the lookup never fails and falls back to the generic shape.
C6_Original ==
  C6_Case =>
    /\ element_type_class_map(last.data.f.element_type) = "ArchitecturalElement"
    /\ last.why # "unknown_element_type"

\* C7 (save atomicity): after a save_model call that fails, the file of the
\* model holds what it held before the call, or the complete document of the
\* model.
C7_SaveAtomic ==
  [][(/\ last'.op = "save_model"
      /\ last'.err # "none"
      /\ current_model # None)
       => LET enc == iterencode(asdict_model(current_model))
          IN \/ files'[current_model.name] = files[current_model.name]
             \/ /\ enc.err = "none"
                /\ files'[current_model.name] = File(enc.chunks)]_vars

\* C8 (save failure kind): every failure of save_model with a current model is
\* reported as ArchitechLensError.
C8_SaveFailureKind ==
  (last.op = "save_model" /\ last.err # "none") =>
    last.err = "ArchitechLensError"

C9_Case ==
  /\ last.op = "load_model"
  /\ ~IsFile(files, last.arg)

\* C9 (missing file), as amended: load_model for a name with no file raises
\* the built-in FileNotFoundError, which is not an ArchitechLensError, and
\* leaves the store with no current model.
C9_MissingFile ==
  C9_Case =>
    /\ last.err = "FileNotFoundError"
    /\ ~IsArchitechLensError(last.err)
    /\ current_model = None

C9_Witness ==
  /\ C9_Case
  /\ last.arg = "nope"
  /\ last.err = "FileNotFoundError"
  /\ files["M"].kind = "file"

\* C9 as stated: the failure is an error of the store's own taxonomy.
C9_Original == C9_Case => IsArchitechLensError(last.err)

\* C10 (malformed JSON): load_model on a file whose text is no JSON document
\* raises the store's deserialization error, and a store that had no current
\* model has none after the call.
C10_MalformedJson ==
  [][(/\ last'.op = "load_model"
      /\ IsFile(files, last'.arg)
      /\ json_load(files[last'.arg].text).err = "JSONDecodeError")
       => (/\ last'.err = DeserializationError
           /\ current_model = None => current_model' = None)]_vars

C10_Witness ==
  /\ last.op = "load_model"
  /\ IsFile(files, last.arg)
  /\ json_load(files[last.arg].text).err = "JSONDecodeError"
  /\ last.err = DeserializationError
  /\ current_model = None

\* C11 (remove_element): a call with an id that is no key of the element
\* mapping raises ElementNotFoundError and leaves the model as it was; a call
\* with a present id succeeds, returns the element that was stored under the
\* id, removes that key and no other, and leaves every other entry, their
\* order and the model's name as they were.
C11_RemoveElement ==
  [][(last'.op = "remove_element" /\ current_model # None) =>
       IF last'.arg \notin DictKeys(current_model.elements)
       THEN /\ last'.err = "ElementNotFoundError"
            /\ current_model' = current_model
       ELSE /\ last'.err = "none"
            /\ last'.value = DictGet(current_model.elements, last'.arg)
            /\ current_model'.name = current_model.name
            /\ DictKeys(current_model'.elements)
                 = DictKeys(current_model.elements) \ {last'.arg}
            /\ Len(current_model'.elements) = Len(current_model.elements) - 1
            /\ \A key \in DictKeys(current_model'.elements) :
                  DictGet(current_model'.elements, key)
                    = DictGet(current_model.elements, key)]_vars

\* A removal that succeeded and left another entry behind.
C11_Witness ==
  /\ last.op = "remove_element"
  /\ last.err = "none"
  /\ IsElement(last.value)
  /\ current_model # None
  /\ Len(current_model.elements) = MaxElements - 1
  /\ last.arg \notin DictKeys(current_model.elements)

C12_Case ==
  /\ last.op = "get_element"
  /\ current_model # None
  /\ last.arg \notin DictKeys(current_model.elements)

\* C12 (get_element), as amended: a call with an id that is no key of the
\* element mapping raises nothing and returns None; a call with a present id
\* returns the element stored under it.
C12_GetElementAbsent ==
  /\ C12_Case => (last.err = "none" /\ last.value = None)
  /\ (last.op = "get_element" /\ current_model # None /\ ~C12_Case) =>
        (last.err = "none"
           /\ last.value = DictGet(current_model.elements, last.arg))

C12_Witness ==
  /\ C12_Case
  /\ last.value = None
  /\ Len(current_model.elements) = MaxElements

\* C12 as stated: the call fails with ElementNotFoundError.
C12_Original == C12_Case => last.err = "ElementNotFoundError"

\* The document in the file of the current model after a save_model call
\* that wrote it.
C13_Case ==
  /\ last.op = "save_model"
  /\ last.err = "none"
  /\ current_model # None

\* C13 (wire form of the element collection): the document save_model writes
\* holds the elements as a JSON list, one mapping per element in the model's
\* order, each with its identifier in the field id, and not as a mapping
\* keyed by element identifier.
C13_WireList ==
  C13_Case =>
    LET doc == json_load(files[current_model.name].text)
    IN /\ doc.err = "none"
       /\ doc.value.f.elements.py = "list"
       /\ Len(doc.value.f.elements.items) = Len(current_model.elements)
       /\ \A i \in 1..Len(current_model.elements) :
             doc.value.f.elements.items[i].f.id = current_model.elements[i].v.id

\* The fields each shape declares (dataclasses.fields of the class, inherited
\* ones included).
DeclaredFields(target) ==
  CASE target = "ArchitecturalModel" -> {"name", "elements"}
    [] target = "GeometricProperties" -> {"length", "width", "height"}
    [] OTHER -> {"id", "name", "element_type", "material",
                 "geometric_properties", "custom_properties"}

Restrict(f, S) == [n \in (DOMAIN f) \cap S |-> f[n]]

\* A mapping that, its undeclared fields apart, is valid for the shape.
ValidGeometryData(d) ==
  /\ d.py = "dict"
  /\ {"length", "width", "height"} \subseteq DOMAIN d.f
  /\ d.f.length > 0 /\ d.f.width > 0 /\ d.f.height > 0

ValidElementData(d) ==
  /\ d.py = "dict"
  /\ {"id", "name", "element_type", "material", "geometric_properties"}
       \subseteq DOMAIN d.f
  /\ d.f.id # "" /\ d.f.name # ""
  /\ d.f.element_type \in {"Beam", "Wall", "Column"}
  /\ d.f.material \in MaterialTypeValues
  /\ ValidGeometryData(d.f.geometric_properties)

ValidModelData(d) ==
  /\ d.py = "dict"
  /\ "name" \in DOMAIN d.f
  /\ d.f.name # ""
  /\ "elements" \in DOMAIN d.f =>
        /\ d.f.elements.py = "dict"
        /\ \A i \in 1..Len(d.f.elements.items) :
              /\ ValidElementData(d.f.elements.items[i].v)
              /\ d.f.elements.items[i].v.f.id = d.f.elements.items[i].k

ValidFor(d, target) ==
  CASE target = "ArchitecturalModel" -> ValidModelData(d)
    [] target = "GeometricProperties" -> ValidGeometryData(d)
    [] target = "ArchitecturalElement" -> ValidElementData(d)
    [] OTHER -> FALSE

\* The decoder was applied to a valid mapping carrying an undeclared field.
C14_Case ==
  /\ last.op = "deserialize_dataclass"
  /\ ValidFor(last.data, last.target)
  /\ ~(DOMAIN last.data.f \subseteq DeclaredFields(last.target))

\* C14 (unknown-field tolerance): for the shapes model, element and geometric
\* properties, decoding a mapping that is valid for the shape and carries a
\* field the shape does not declare succeeds, gives the value decoding the
\* mapping without that field gives, and no attribute of the result bears
\* the undeclared field's name.
C14_UnknownFieldTolerance ==
  C14_Case =>
    LET plain == deserialize_dataclass(
                   Mapping(Restrict(last.data.f, DeclaredFields(last.target))),
                   last.target)
    IN /\ last.err = "none"
       /\ plain.err = "none"
       /\ last.value = plain.value
       /\ (DOMAIN last.value) \cap
            ((DOMAIN last.data.f) \ DeclaredFields(last.target)) = {}

\* The part of C14 the decoder keeps: an undeclared field never changes the
\* outcome of decoding, and for a model and for geometric properties the
\* decoding succeeds.
C14_ExtraFieldIgnored ==
  C14_Case =>
    LET plain == deserialize_dataclass(
                   Mapping(Restrict(last.data.f, DeclaredFields(last.target))),
                   last.target)
    IN /\ last.err = plain.err
       /\ last.err = "none" => last.value = plain.value
       /\ (last.target = "GeometricProperties") => last.err = "none"

\* The members of MaterialType, as Python values.
MaterialTypeInstances ==
  {EnumMember("MaterialType", m) : m \in MaterialTypeMembers}

\* A constructor was called with an empty id, an empty name or a material
\* that is no member of MaterialType, or the model's with an empty name.
C15_Case ==
  /\ last.op = "construct"
  /\ IF last.ctor = "ArchitecturalModel" THEN last.args.name = ""
     ELSE \/ last.args.id = ""
          \/ last.args.name = ""
          \/ last.args.material \notin MaterialTypeInstances

\* C15 (construction validation): a constructor call for an element with an
\* empty id, an empty name or a material that is no member of MaterialType,
\* or for a model with an empty name, raises ValidationError and yields no
\* object; every element and model a constructor does yield has a non-empty
\* id and name and a member of MaterialType as material, a non-empty name.
C15_ConstructionValidation ==
  /\ C15_Case => (last.err = "ValidationError" /\ last.value = None)
  /\ (last.op = "construct" /\ last.err = "none") =>
       IF last.ctor = "ArchitecturalModel"
       THEN last.value.name # ""
       ELSE /\ last.value.id # ""
            /\ last.value.name # ""
            /\ last.value.material \in MaterialTypeInstances

\* Beam(id="B002", name="Invalid Beam", material="FakeMaterial", ...)
C15_Witness ==
  /\ C15_Case
  /\ last.ctor = "Beam"
  /\ last.args.id = "B002"
  /\ last.args.name = "Invalid Beam"
  /\ last.args.material = PyStr("FakeMaterial")
  /\ last.args.geometric_properties = UnitGeometry
  /\ last.err = "ValidationError"
  /\ last.why = "material"

\* C16 (missing-file load clears the selection): a load_model call for a name
\* with no file raises FileNotFoundError, touches no file and leaves the store
\* with no current model, whatever model was current before; save_model with
\* no current model, whatever the file system would do, returns False and
\* writes nothing.
C16_MissingLoadClears ==
  [][/\ (last'.op = "load_model" /\ ~IsFile(files, last'.arg)) =>
          /\ last'.err = "FileNotFoundError"
          /\ current_model' = None
          /\ files' = files
          /\ \A fault \in Faults :
                LET s == save_model(current_model', files', fault, 0)
                IN s.err = "none" /\ s.value = FALSE /\ s.files = files'
     /\ (last'.op = "save_model" /\ current_model = None) =>
          /\ last'.err = "none"
          /\ last'.value = PyBool(FALSE)
          /\ files' = files]_vars

\* A save_model call that returned False with the saved file of an earlier
\* current model on disk: the store lost its model to a missing-file load.
C16_Witness ==
  /\ last.op = "save_model"
  /\ last.err = "none"
  /\ last.value = PyBool(FALSE)
  /\ current_model = None
  /\ IsFile(files, "M")
  /\ Len(files["M"].text) = 2 * MaxElements + 2

\* The model load_model builds from the file of a name.
LoadedFrom(fs, model_name) ==
  LET parsed == json_load(fs[model_name].text)
  IN IF parsed.err # "none" THEN parsed
     ELSE deserialize_dataclass(parsed.value, "ArchitecturalModel")

\* C17 (load assigns on full success only): a load_model call that finds the
\* file and then fails, at parsing or at decoding, raises ArchitechLensError
\* and leaves the current model the one it was before the call; a call that
\* succeeds makes the model decoded from the file the current one.
C17_LoadAssignsOnSuccess ==
  [][(last'.op = "load_model" /\ IsFile(files, last'.arg)) =>
       LET r == LoadedFrom(files, last'.arg)
       IN IF r.err # "none"
          THEN /\ last'.err = "ArchitechLensError"
               /\ current_model' = current_model
          ELSE /\ last'.err = "none"
               /\ current_model' = r.value
               /\ current_model'.py = "ArchitecturalModel"]_vars

\* A load that found the file, failed at decoding its elements and left a
\* current model with elements in place.
C17_Witness ==
  /\ last.op = "load_model"
  /\ IsFile(files, last.arg)
  /\ last.err = "ArchitechLensError"
  /\ last.why = "not_an_element"
  /\ current_model # None
  /\ Len(current_model.elements) = MaxElements

====
